---- MODULE Spec2Model ----
(***************************************************************************)
(* Model of pytileproj (src/pytileproj/base.py): the shared core record,   *)
(* Tile / GlobalTile with their active pixel subset, the TilingSystem      *)
(* bounding-box queries, TiledProjection.search_tiles_in_geometry, the     *)
(* TiledProjectionSystem with its registry of subgrids (locate, search in  *)
(* a ROI, lonlat2xy), TPSProjection and the tile name strings.             *)
(*                                                                         *)
(* Projected coordinates of boxes, tiles and pixels are integers (metres). *)
(* The coordinates of geometry vertices are kept in half metres, so that   *)
(* the truncation int(envelope[k]) of the code is a real conversion.       *)
(***************************************************************************)
EXTENDS Integers, Sequences, FiniteSets, TLC

VARIABLES core, tilesys, tile, res, subgrids, geom_area

vars == <<core, tilesys, tile, res, subgrids, geom_area>>

(***************************************************************************)
(* Bounds of the model.                                                    *)
(***************************************************************************)
\* largest projected coordinate of a bounding box or of a point
MaxCoord == 4
\* smallest projected coordinate is -MinCoordAbs
MinCoordAbs == 1
\* geographic coordinates of geometry vertices range over 0..MaxGeo (half units)
MaxGeo == 11
\* pixel limits handed to the active_subset_px setter range over -1..MaxLimit
MaxLimit == 2
\* largest coordinate of the bounding box a GlobalTile is built from
MaxBox == 2

Coords == (0 - MinCoordAbs)..MaxCoord
BoxCoords == 0..MaxBox

(***************************************************************************)
(* Python arithmetic.                                                      *)
(***************************************************************************)
\* a // b of Python: floor division, also for a negative divisor
FloorDiv(a, b) == IF b > 0 THEN a \div b ELSE (0 - a) \div (0 - b)

\* np.floor(a / s) and np.ceil(a / s) for an integer a and s > 0
NpFloor(a, s) == a \div s
NpCeil(a, s) == 0 - ((0 - a) \div s)

\* round(n / d) of Python 3 for d > 0: to the nearest integer, ties to even
PyRound(n, d) ==
    LET q == n \div d
        r == n % d
    IN  IF 2 * r < d THEN q
        ELSE IF 2 * r > d THEN q + 1
        ELSE IF q % 2 = 0 THEN q ELSE q + 1

(***************************************************************************)
(* TPSCoreProperty: the record shared by every level of the hierarchy.     *)
(***************************************************************************)
TPSCoreProperty(tag, projection, sampling, tiletype, tile_xsize_m, tile_ysize_m) ==
    [tag |-> tag, projection |-> projection, sampling |-> sampling,
     tiletype |-> tiletype, tile_xsize_m |-> tile_xsize_m,
     tile_ysize_m |-> tile_ysize_m]

\* the cores a grid definition builds: sampling > 0 divides both tile sizes
Cores ==
    { TPSCoreProperty("SG", "proj", s, "T1", tx, ty) :
        <<s, tx, ty>> \in { <<1, 2, 2>>, <<2, 4, 2>>, <<3, 3, 6>> } }

(***************************************************************************)
(* Tile                                                                    *)
(***************************************************************************)
\* Tile.__init__
TileInit(c, name, xll, yll) ==
    [typename |-> c.tiletype, name |-> name, llx |-> xll, lly |-> yll,
     x_size_px |-> FloorDiv(c.tile_xsize_m, c.sampling),
     y_size_px |-> FloorDiv(c.tile_ysize_m, c.sampling),
     subset_px |-> <<0, 0, FloorDiv(c.tile_xsize_m, c.sampling),
                           FloorDiv(c.tile_ysize_m, c.sampling)>>]

\* the core as GlobalTile.__init__ leaves it; bbox = (xmin, xmax, ymin, ymax)
GlobalTileCore(c, bbox) ==
    [c EXCEPT !.tiletype = "TG",
              !.tile_xsize_m = NpFloor(bbox[2], c.sampling) * c.sampling
                               - NpCeil(bbox[1], c.sampling) * c.sampling,
              !.tile_ysize_m = NpFloor(bbox[4], c.sampling) * c.sampling
                               - NpCeil(bbox[3], c.sampling) * c.sampling]

\* GlobalTile.__init__: the tile object it builds
GlobalTileInit(c, name, bbox) ==
    LET base == TileInit(c, name, 0, 0)
        c2 == GlobalTileCore(c, bbox)
        xs == FloorDiv(c2.tile_xsize_m, c2.sampling)
        ys == FloorDiv(c2.tile_ysize_m, c2.sampling)
    IN  [base EXCEPT !.typename = "TG", !.x_size_px = xs, !.y_size_px = ys,
                     !.subset_px = <<0, 0, xs, ys>>]

\* Tile.limits_m
limits_m(t, c) ==
    <<t.llx, t.lly, t.llx + c.tile_xsize_m, t.lly + c.tile_ysize_m>>

\* the _max list with the x size in place of the y size for ymax
SubsetMax_ymaxAgainstXSize(t) == <<t.x_size_px, t.y_size_px, t.x_size_px, t.x_size_px>>

\* the _max list of the setter
SubsetMax(t) == <<t.x_size_px, t.y_size_px, t.x_size_px, t.y_size_px>>

\* the setter of Tile.active_subset_px: the error it raises, or "none"
SubsetError(t, limits) ==
    IF Len(limits) # 4 THEN "ValueError"
    ELSE IF \E l \in 1..4 : limits[l] < 0 \/ limits[l] > SubsetMax(t)[l]
         THEN "ValueError"
    ELSE IF limits[1] >= limits[3] THEN "ValueError"
    ELSE IF limits[2] >= limits[4] THEN "ValueError"
    ELSE "none"

\* a setter that stores the limits before it checks them
SetSubset_storeFirst(t, limits) == [t EXCEPT !.subset_px = limits]

\* the tile after the setter ran
SetSubset(t, limits) ==
    IF SubsetError(t, limits) = "none" THEN [t EXCEPT !.subset_px = limits] ELSE t

\* Tile.geotransform
geotransform(t, c) ==
    <<t.llx, c.sampling, 0, t.lly + c.tile_ysize_m, 0, 0 - c.sampling>>

\* round(v, precision) of an integral v: ij2xy only rounds when sampling <= 1,
\* and the integer coordinates of the model have no decimals to drop
RoundDecimals(v, sampling) == v

\* Tile.ij2xy
ij2xy(t, c, i, j) ==
    LET gt == geotransform(t, c)
        x == gt[1] + i * gt[2] + j * gt[3]
        y == gt[4] + i * gt[5] + j * gt[6]
    IN  IF c.sampling <= 1 THEN <<RoundDecimals(x, c.sampling),
                                  RoundDecimals(y, c.sampling)>>
        ELSE <<x, y>>

\* xy2ij counting the rows from the lower edge of the tile
xy2ij_rowsFromBottom(t, c, x, y) ==
    <<PyRound(x - t.llx, c.sampling), PyRound(y - t.lly, c.sampling)>>

\* Tile.xy2ij
xy2ij(t, c, x, y) ==
    LET gt == geotransform(t, c)
        den == gt[3] * gt[5] - gt[2] * gt[6]
    IN  <<PyRound(0 - (gt[3] * gt[4] - gt[1] * gt[6] + gt[6] * x - gt[3] * y), den),
          PyRound(0 - ((0 - gt[2]) * gt[4] + gt[1] * gt[5] - gt[5] * x + gt[2] * y), den)>>

(***************************************************************************)
(* TilingSystem                                                            *)
(***************************************************************************)
\* TilingSystem.__init__
TilingSystemInit(c, x0, y0) ==
    [x0 |-> x0, y0 |-> y0, xstep |-> c.tile_xsize_m, ystep |-> c.tile_ysize_m]

\* the cores of a tiling system: each name field counts NameUnit metres
TilingCores ==
    { TPSCoreProperty("SG", "proj", s, "T1", tx, ty) :
        <<s, tx, ty>> \in { <<1, 2, 2>>, <<2, 4, 2>>, <<1, 2, 4>>, <<2, 4, 4>> } }

\* the length a digit of the E and N fields of a tile name stands for
NameUnit == 2

\* _encode_tilename of the grid definition: tag, sampling, the E and N fields
\* (lower-left corner in name units) and the tile type
EncodeTilename(c, llx, lly) ==
    <<c.tag, c.sampling, llx \div NameUnit, lly \div NameUnit, c.tiletype>>

\* decode_tilename of the grid definition: the lower-left corner of a name
DecodeLowerLeft(name) == <<name[3] * NameUnit, name[4] * NameUnit>>

\* create_tile(name=...) of the grid definition
CreateTile(c, name) ==
    TileInit(c, name, DecodeLowerLeft(name)[1], DecodeLowerLeft(name)[2])

\* TilingSystem.round_xy2lowerleft
round_xy2lowerleft(ts, c, x, y) ==
    <<FloorDiv(x, c.tile_xsize_m) * c.tile_xsize_m,
      FloorDiv(y, c.tile_ysize_m) * c.tile_ysize_m>>

\* list(range(start, stop, step)) for step > 0
PyRange(start, stop, step) ==
    LET n == IF stop > start THEN ((stop - start - 1) \div step) + 1 ELSE 0
    IN  [k \in 1..n |-> start + (k - 1) * step]

\* np.meshgrid(llxs, llys) flattened: the rows run over llys, the columns over llxs
MeshFlat(llxs, llys) ==
    [k \in 1..(Len(llxs) * Len(llys)) |->
        <<llxs[((k - 1) % Len(llxs)) + 1], llys[((k - 1) \div Len(llxs)) + 1]>>]

\* the order check of identify_tiles_overlapping_xybbox without the equal case
BBoxError_strictOnly(bbox) ==
    IF bbox[1] > bbox[3] \/ bbox[2] > bbox[4] THEN "ValueError" ELSE "none"

\* the order check of identify_tiles_overlapping_xybbox
BBoxError(bbox) ==
    IF bbox[1] >= bbox[3] \/ bbox[2] >= bbox[4] THEN "ValueError" ELSE "none"

\* the lower-left corners (tx[i], ty[i]) identify_tiles_overlapping_xybbox encodes
OverlappingCells(c, bbox) ==
    LET tsize_x == c.tile_xsize_m
        tsize_y == c.tile_ysize_m
        llxs == PyRange(FloorDiv(bbox[1], tsize_x) * tsize_x,
                        FloorDiv(bbox[3], tsize_x) * tsize_x + 1, tsize_x)
        llys == PyRange(FloorDiv(bbox[2], tsize_y) * tsize_y,
                        FloorDiv(bbox[4], tsize_y) * tsize_y + 1, tsize_y)
    IN  MeshFlat(llxs, llys)

\* TilingSystem.identify_tiles_overlapping_xybbox: the names of a valid box
identify_tiles_overlapping_xybbox(c, bbox) ==
    [k \in 1..Len(OverlappingCells(c, bbox)) |->
        EncodeTilename(c, OverlappingCells(c, bbox)[k][1], OverlappingCells(c, bbox)[k][2])]

\* the limits with the left edge taken from tiles that start right of the box
SubsetForBBox_leftFlipped(t, c, bbox) ==
    LET d == t.subset_px
        extent == limits_m(t, c)
    IN  << IF extent[1] >= bbox[1] THEN FloorDiv(bbox[1] - extent[1], c.sampling) ELSE d[1],
           IF extent[2] <= bbox[2] THEN FloorDiv(bbox[2] - extent[2], c.sampling) ELSE d[2],
           IF extent[3] > bbox[3]
               THEN FloorDiv(bbox[3] - extent[3] + c.tile_xsize_m, c.sampling) ELSE d[3],
           IF extent[4] > bbox[4]
               THEN FloorDiv(bbox[4] - extent[4] + c.tile_ysize_m, c.sampling) ELSE d[4] >>

\* the limits (le, te, re, be) create_tiles_overlapping_xybbox assigns to a tile
SubsetForBBox(t, c, bbox) ==
    LET d == t.subset_px
        extent == limits_m(t, c)
    IN  << IF extent[1] <= bbox[1] THEN FloorDiv(bbox[1] - extent[1], c.sampling) ELSE d[1],
           IF extent[2] <= bbox[2] THEN FloorDiv(bbox[2] - extent[2], c.sampling) ELSE d[2],
           IF extent[3] > bbox[3]
               THEN FloorDiv(bbox[3] - extent[3] + c.tile_xsize_m, c.sampling) ELSE d[3],
           IF extent[4] > bbox[4]
               THEN FloorDiv(bbox[4] - extent[4] + c.tile_ysize_m, c.sampling) ELSE d[4] >>

\* the tiles create_tiles_overlapping_xybbox has built for the first n names
TilesForBBox(c, bbox, n) ==
    [k \in 1..n |->
        LET t == CreateTile(c, identify_tiles_overlapping_xybbox(c, bbox)[k])
        IN  SetSubset(t, SubsetForBBox(t, c, bbox))]

\* the position of the first tile whose assignment raises, 0 if none does
FirstRejected(c, bbox) ==
    LET names == identify_tiles_overlapping_xybbox(c, bbox)
        bad == { k \in 1..Len(names) :
                   SubsetError(CreateTile(c, names[k]),
                               SubsetForBBox(CreateTile(c, names[k]), c, bbox)) # "none" }
    IN  IF bad = {} THEN 0 ELSE CHOOSE k \in bad : \A k2 \in bad : k <= k2

(***************************************************************************)
(* TiledProjection.search_tiles_in_geometry                                *)
(* A geometry is a multipoint (a set of points) or an axis-aligned box     *)
(* <<xmin, ymin, xmax, ymax>>; its coordinates count half units.           *)
(***************************************************************************)
GeoCoords == 0..MaxGeo

\* polygon_geog of the subgrid: a box that leaves a margin of the plane outside
FootprintGeog == [kind |-> "box", box |-> <<1, 1, MaxGeo - 1, MaxGeo - 1>>]

\* OGR Intersection of a geometry with a box
Intersection(g, f) ==
    IF g.kind = "points"
    THEN [kind |-> "points",
          pts |-> { p \in g.pts : /\ f.box[1] <= p[1] /\ p[1] <= f.box[3]
                                  /\ f.box[2] <= p[2] /\ p[2] <= f.box[4] }]
    ELSE [kind |-> "box",
          box |-> << IF g.box[1] > f.box[1] THEN g.box[1] ELSE f.box[1],
                     IF g.box[2] > f.box[2] THEN g.box[2] ELSE f.box[2],
                     IF g.box[3] < f.box[3] THEN g.box[3] ELSE f.box[3],
                     IF g.box[4] < f.box[4] THEN g.box[4] ELSE f.box[4] >>]

\* a geometry without any point
IsEmpty(g) ==
    IF g.kind = "points" THEN g.pts = {}
    ELSE g.box[1] > g.box[3] \/ g.box[2] > g.box[4]

\* OGR Intersects of a geometry with a box
Intersects(g, f) == ~IsEmpty(Intersection(g, f))

\* the reprojection into the grid's spatial reference: the origin of the
\* projected plane lies inside the footprint, so coordinates left of and below
\* it are negative
ReprojectPoint(p) == <<p[1] - 3, p[2] - 3>>

\* geometry.transform_geometry: a reprojected clone
transform_geometry(g) ==
    IF g.kind = "points"
    THEN [kind |-> "points", pts |-> { ReprojectPoint(p) : p \in g.pts }]
    ELSE [kind |-> "box",
          box |-> << ReprojectPoint(<<g.box[1], g.box[2]>>)[1],
                     ReprojectPoint(<<g.box[1], g.box[2]>>)[2],
                     ReprojectPoint(<<g.box[3], g.box[4]>>)[1],
                     ReprojectPoint(<<g.box[3], g.box[4]>>)[2] >>]

SetMin(S) == CHOOSE a \in S : \A b \in S : a <= b
SetMax(S) == CHOOSE a \in S : \A b \in S : a >= b

\* OGR GetEnvelope: (minX, maxX, minY, maxY), in half units
GetEnvelope(g) ==
    IF g.kind = "points"
    THEN << SetMin({ p[1] : p \in g.pts }), SetMax({ p[1] : p \in g.pts }),
            SetMin({ p[2] : p \in g.pts }), SetMax({ p[2] : p \in g.pts }) >>
    ELSE << g.box[1], g.box[3], g.box[2], g.box[4] >>

\* int(v) of a coordinate v = h / 2: truncation towards zero
IntTrunc(h) == IF h >= 0 THEN h \div 2 ELSE 0 - ((0 - h) \div 2)

\* np.arange(start, stop, step) for step > 0
NpArange(start, stop, step) == PyRange(start, stop, step)

\* itertools.product(xr, yr): the last index runs fastest
Product(xr, yr) ==
    [k \in 1..(Len(xr) * Len(yr)) |->
        <<xr[((k - 1) \div Len(yr)) + 1], yr[((k - 1) % Len(yr)) + 1]>>]

\* geometry.extent2polygon of (xmin, ymin, xmax, ymax) in metres, as a box in
\* half units
extent2polygon(extent) ==
    [kind |-> "box",
     box |-> <<2 * extent[1], 2 * extent[2], 2 * extent[3], 2 * extent[4]>>]

\* geom_tile of search_tiles_in_geometry
TileTestGeom(c, x, y) ==
    extent2polygon(<<x, y, x + c.tile_xsize_m, y + c.tile_xsize_m>>)

\* point2tilename of the grid definition
point2tilename(ts, c, x, y) ==
    EncodeTilename(c, round_xy2lowerleft(ts, c, x, y)[1], round_xy2lowerleft(ts, c, x, y)[2])

\* check_tile_covers_land of the grid definition: the land mask of the model
\* holds the tiles of the first column
check_tile_covers_land(ftile) == ftile[3] = 0

\* the candidate range taken from the envelope as it is, without the clamp
Candidates_unclamped(c, intersect) ==
    LET envelope == GetEnvelope(intersect)
        x_min == FloorDiv(IntTrunc(envelope[1]), c.tile_xsize_m) * c.tile_xsize_m
        x_max == (FloorDiv(IntTrunc(envelope[2]), c.tile_xsize_m) + 1) * c.tile_xsize_m
        y_min == FloorDiv(IntTrunc(envelope[3]), c.tile_ysize_m) * c.tile_ysize_m
        y_max == (FloorDiv(IntTrunc(envelope[4]), c.tile_ysize_m) + 1) * c.tile_ysize_m
    IN  Product(NpArange(x_min, x_max + c.tile_xsize_m, c.tile_xsize_m),
                NpArange(y_min, y_max + c.tile_ysize_m, c.tile_ysize_m))

\* the candidate lower-left corners of search_tiles_in_geometry, in loop order
Candidates(c, intersect) ==
    LET envelope == GetEnvelope(intersect)
        x_min0 == FloorDiv(IntTrunc(envelope[1]), c.tile_xsize_m) * c.tile_xsize_m
        x_max == (FloorDiv(IntTrunc(envelope[2]), c.tile_xsize_m) + 1) * c.tile_xsize_m
        y_min0 == FloorDiv(IntTrunc(envelope[3]), c.tile_ysize_m) * c.tile_ysize_m
        y_max == (FloorDiv(IntTrunc(envelope[4]), c.tile_ysize_m) + 1) * c.tile_ysize_m
        x_min == IF x_min0 < 0 THEN 0 ELSE x_min0
        y_min == IF y_min0 < 0 THEN 0 ELSE y_min0
    IN  Product(NpArange(x_min, x_max + c.tile_xsize_m, c.tile_xsize_m),
                NpArange(y_min, y_max + c.tile_ysize_m, c.tile_ysize_m))

\* the candidates search_tiles_in_geometry accepts, in loop order
AcceptedCells(ts, c, intersect, coverland) ==
    SelectSeq(Candidates(c, intersect),
              LAMBDA xy :
                /\ Intersects(intersect, TileTestGeom(c, xy[1], xy[2]))
                /\ (~coverland \/ check_tile_covers_land(point2tilename(ts, c, xy[1], xy[2]))))

\* TiledProjection.__init__ with a tiling system: the fields the search reads
TiledProjectionInit(c, polygon_geog, tilingsystem) ==
    [core |-> c, polygon_geog |-> polygon_geog, tilesys |-> tilingsystem]

\* TiledProjection.search_tiles_in_geometry of the subgrid sg
SubgridSearch(sg, geom, coverland) ==
    IF ~Intersects(geom, sg.polygon_geog) THEN <<>>
    ELSE LET cells == AcceptedCells(sg.tilesys, sg.core,
                                    transform_geometry(Intersection(geom, sg.polygon_geog)),
                                    coverland)
         IN  [k \in 1..Len(cells) |->
                 point2tilename(sg.tilesys, sg.core, cells[k][1], cells[k][2])]

\* TiledProjection.search_tiles_in_geometry of the subgrid with the footprint
\* FootprintGeog
search_tiles_in_geometry(ts, c, geom, coverland) ==
    SubgridSearch(TiledProjectionInit(c, FootprintGeog, ts), geom, coverland)

\* a subgrid on its own, outside a TiledProjectionSystem: no registry
NoSubgrids == <<>>

\* the caller holds no geometry object
NoGeom == [kind |-> "none"]

\* no call is pending: the caller has taken the result of the last one
NoRes == [op |-> "none"]

\* the caller takes the result of the last call
Return ==
    /\ res # NoRes
    /\ res' = NoRes
    /\ UNCHANGED <<core, tilesys, tile, subgrids, geom_area>>

(***************************************************************************)
(* Tile operations                                                         *)
(***************************************************************************)
InitTile ==
    /\ core \in Cores
    /\ tilesys = TilingSystemInit(core, 0, 0)
    /\ tile = TileInit(core, "tile", 0, 0)
    /\ res = NoRes
    /\ subgrids = NoSubgrids
    /\ geom_area = NoGeom

\* a Tile is built on the shared core
NewTile ==
    /\ res = NoRes
    /\ tile' = TileInit(core, "tile", 0, 0)
    /\ res' = [op |-> "Tile"]
    /\ UNCHANGED <<core, tilesys, subgrids, geom_area>>

\* the projected bounding boxes (xmin, xmax, ymin, ymax) of a subgrid
Boxes ==
    { <<xmin, xmax, ymin, ymax>> :
        xmin \in BoxCoords, xmax \in BoxCoords, ymin \in BoxCoords, ymax \in BoxCoords }

\* a GlobalTile is built on the shared core from a projected bounding box
NewGlobalTile ==
    \E bbox \in Boxes :
        /\ res = NoRes
        /\ bbox[1] < bbox[2]
        /\ bbox[3] < bbox[4]
        /\ tile' = GlobalTileInit(core, "TG", bbox)
        /\ core' = GlobalTileCore(core, bbox)
        /\ res' = [op |-> "GlobalTile", bbox |-> bbox]
        /\ UNCHANGED <<tilesys, subgrids, geom_area>>

Limit == (0 - 1)..MaxLimit

\* the limits a caller may assign: four values, or a tuple of another length
LimitTuples ==
    { <<a, b, c, d>> : a \in Limit, b \in Limit, c \in Limit, d \in Limit }
    \cup { <<0, 0, 1>>, <<0, 0, 1, 1, 1>>, <<>> }

\* tile.active_subset_px = limits
SetActiveSubset ==
    \E limits \in LimitTuples :
        /\ res = NoRes
        /\ tile' = SetSubset(tile, limits)
        /\ res' = [op |-> "set_active_subset", limits |-> limits,
                   err |-> SubsetError(tile, limits)]
        /\ UNCHANGED <<core, tilesys, subgrids, geom_area>>

NextTile == NewTile \/ NewGlobalTile \/ SetActiveSubset \/ Return

SpecTile == InitTile /\ [][NextTile]_vars

(***************************************************************************)
(* Pixel index <-> projected coordinate                                    *)
(***************************************************************************)
InitPixel ==
    /\ core \in Cores
    /\ tilesys = TilingSystemInit(core, 0, 0)
    /\ \E kx \in 0..1, ky \in 0..1 :
           tile = TileInit(core, "tile", kx * core.tile_xsize_m, ky * core.tile_ysize_m)
    /\ res = NoRes
    /\ subgrids = NoSubgrids
    /\ geom_area = NoGeom

\* tile.xy2ij(*tile.ij2xy(i, j))
PixelRoundTrip ==
    \E i \in (0 - 1)..(tile.x_size_px + 1), j \in (0 - 1)..(tile.y_size_px + 1) :
        /\ res = NoRes
        /\ res' = [op |-> "ij2xy_xy2ij", ij |-> <<i, j>>,
                   xy |-> ij2xy(tile, core, i, j),
                   out |-> xy2ij(tile, core, ij2xy(tile, core, i, j)[1],
                                 ij2xy(tile, core, i, j)[2])]
        /\ UNCHANGED <<core, tilesys, tile, subgrids, geom_area>>

\* tile.xy2ij(x, y) for a point in or next to the tile's extent
PixelOfPoint ==
    \E x \in (tile.llx - 1)..(tile.llx + core.tile_xsize_m + 1),
       y \in (tile.lly - 1)..(tile.lly + core.tile_ysize_m + 1) :
        /\ res = NoRes
        /\ res' = [op |-> "xy2ij", xy |-> <<x, y>>, out |-> xy2ij(tile, core, x, y)]
        /\ UNCHANGED <<core, tilesys, tile, subgrids, geom_area>>

NextPixel == NewGlobalTile \/ PixelRoundTrip \/ PixelOfPoint \/ Return

SpecPixel == InitPixel /\ [][NextPixel]_vars

(***************************************************************************)
(* TilingSystem queries                                                    *)
(***************************************************************************)
InitTiling ==
    /\ core \in TilingCores
    /\ \E o \in {<<0, 0>>, <<1, 0>>, <<0, 1>>} : tilesys = TilingSystemInit(core, o[1], o[2])
    /\ tile = TileInit(core, "tile", 0, 0)
    /\ res = NoRes
    /\ subgrids = NoSubgrids
    /\ geom_area = NoGeom

\* the boxes [xmin, ymin, xmax, ymax] a caller may hand in, in any order
BBoxes ==
    { <<xmin, ymin, xmax, ymax>> :
        xmin \in Coords, ymin \in Coords, xmax \in Coords, ymax \in Coords }

\* tilesys.round_xy2lowerleft(x, y)
RoundXy2LowerLeft ==
    \E x \in Coords, y \in Coords :
        /\ res = NoRes
        /\ res' = [op |-> "round_xy2lowerleft", xy |-> <<x, y>>,
                   out |-> round_xy2lowerleft(tilesys, core, x, y)]
        /\ UNCHANGED <<core, tilesys, tile, subgrids, geom_area>>

\* tilesys.identify_tiles_overlapping_xybbox(bbox)
IdentifyTiles ==
    \E bbox \in BBoxes :
        /\ res = NoRes
        /\ res' = IF BBoxError(bbox) # "none"
                  THEN [op |-> "identify_tiles", bbox |-> bbox, err |-> BBoxError(bbox),
                        cells |-> <<>>, out |-> <<>>]
                  ELSE [op |-> "identify_tiles", bbox |-> bbox, err |-> "none",
                        cells |-> OverlappingCells(core, bbox),
                        out |-> identify_tiles_overlapping_xybbox(core, bbox)]
        /\ UNCHANGED <<core, tilesys, tile, subgrids, geom_area>>

\* tilesys.create_tiles_overlapping_xybbox(bbox): `assigned` lists the limits
\* handed to the setter, tile after tile, up to the assignment that raised
CreateTiles ==
    \E bbox \in BBoxes :
        /\ res = NoRes
        /\ res' = IF BBoxError(bbox) # "none"
                  THEN [op |-> "create_tiles", bbox |-> bbox, err |-> BBoxError(bbox),
                        assigned |-> <<>>, out |-> <<>>]
                  ELSE LET names == identify_tiles_overlapping_xybbox(core, bbox)
                           stop == FirstRejected(core, bbox)
                           n == IF stop = 0 THEN Len(names) ELSE stop
                       IN  [op |-> "create_tiles", bbox |-> bbox,
                            err |-> IF stop = 0 THEN "none" ELSE "ValueError",
                            assigned |-> [k \in 1..n |->
                                SubsetForBBox(CreateTile(core, names[k]), core, bbox)],
                            out |-> IF stop = 0 THEN TilesForBBox(core, bbox, n) ELSE <<>>]
        /\ UNCHANGED <<core, tilesys, tile, subgrids, geom_area>>

NextTiling == RoundXy2LowerLeft \/ IdentifyTiles \/ CreateTiles \/ Return

SpecTiling == InitTiling /\ [][NextTiling]_vars

(***************************************************************************)
(* Search of the tiles of a subgrid                                        *)
(***************************************************************************)
InitSearch ==
    /\ core \in TilingCores
    /\ tilesys = TilingSystemInit(core, 0, 0)
    /\ tile = TileInit(core, "tile", 0, 0)
    /\ res = NoRes
    /\ subgrids = NoSubgrids
    /\ geom_area = NoGeom

GeoPoints == GeoCoords \X GeoCoords

\* the regions of interest: one point, two points, or a box
Geometries ==
    { [kind |-> "points", pts |-> {p}] : p \in GeoPoints }
    \cup { [kind |-> "points", pts |-> {p, <<p[1] + d[1], p[2] + d[2]>>}] :
             p \in GeoPoints, d \in {<<1, 0>>, <<0, 3>>, <<4, 4>>} }
    \cup { [kind |-> "box", box |-> <<p[1], p[2], p[1] + d[1], p[2] + d[2]>>] :
             p \in GeoPoints, d \in {<<1, 2>>, <<1, 5>>, <<4, 2>>, <<4, 5>>} }

\* the argument coverland of a call: left out, or given as True or False
NoCover == [given |-> FALSE]
CoverArgs == { NoCover } \cup { [given |-> TRUE, value |-> b] : b \in BOOLEAN }

\* coverland in search_tiles_in_geometry: the default of its signature is True
CoverlandInGeometry(cover_arg) == IF cover_arg.given THEN cover_arg.value ELSE TRUE

\* coverland in search_tiles_in_roi: the default of its signature is False
CoverlandInRoi(cover_arg) == IF cover_arg.given THEN cover_arg.value ELSE FALSE

\* subgrid.search_tiles_in_geometry(geom, coverland): `tested` lists the
\* lower-left corners (x, y) of the candidates of the loop, `cells` those of
\* the accepted candidates, `region` the reprojected intersection they were
\* tested against
SearchTilesInGeometry ==
    \E geom \in Geometries, cover_arg \in CoverArgs :
      LET coverland == CoverlandInGeometry(cover_arg) IN
        /\ res = NoRes
        /\ res' = [op |-> "search_tiles_in_geometry", geom |-> geom,
                   cover_arg |-> cover_arg, coverland |-> coverland,
                   hit |-> Intersects(geom, FootprintGeog),
                   region |-> transform_geometry(Intersection(geom, FootprintGeog)),
                   tested |-> IF Intersects(geom, FootprintGeog)
                              THEN Candidates(core,
                                     transform_geometry(Intersection(geom, FootprintGeog)))
                              ELSE <<>>,
                   cells |-> IF Intersects(geom, FootprintGeog)
                             THEN AcceptedCells(tilesys, core,
                                    transform_geometry(Intersection(geom, FootprintGeog)),
                                    coverland)
                             ELSE <<>>,
                   out |-> search_tiles_in_geometry(tilesys, core, geom, coverland)]
        /\ UNCHANGED <<core, tilesys, tile, subgrids, geom_area>>

NextSearch == SearchTilesInGeometry \/ Return

SpecSearch == InitSearch /\ [][NextSearch]_vars

(***************************************************************************)
(* TiledProjectionSystem: the registry of subgrids and the queries over it *)
(* self.subgrids is a sequence of entries [id, sg] in the order of the     *)
(* dictionary's keys; a geometry object carries its spatial reference sr:  *)
(* "none" (not assigned), "geo" (lon-lat) or "grid" (projected).           *)
(***************************************************************************)
SeqToSet(q) == { q[k] : k \in 1..Len(q) }

\* self.subgrids.keys()
SubgridKeys(sgs) == [k \in 1..Len(sgs) |-> sgs[k].id]

\* self.subgrids[id]
GetSubgrid(sgs, id) == sgs[CHOOSE k \in 1..Len(sgs) : sgs[k].id = id].sg

\* the shape of a geometry object, without its spatial reference
Shape(g) ==
    IF g.kind = "points" THEN [kind |-> "points", pts |-> g.pts]
    ELSE [kind |-> "box", box |-> g.box]

\* a geometry object of the given shape and spatial reference
WithSr(g, sr) ==
    IF g.kind = "points" THEN [kind |-> "points", pts |-> g.pts, sr |-> sr]
    ELSE [kind |-> "box", box |-> g.box, sr |-> sr]

\* geometry.intersect_geometry: the intersection of two clones
intersect_geometry(geometry1, geometry2) == Intersection(geometry1, geometry2)

\* a locate that intersects the caller's geometry in place, without a clone
locate_geometry_in_subgrids_inPlace(sgs, geom) ==
    [out |-> SelectSeq(SubgridKeys(sgs),
                       LAMBDA x : Intersects(geom, GetSubgrid(sgs, x).polygon_geog)),
     geom |-> IF Len(sgs) = 0 THEN geom
              ELSE IF "sr" \in DOMAIN geom
              THEN WithSr(Intersection(geom, sgs[Len(sgs)].sg.polygon_geog), geom.sr)
              ELSE Intersection(geom, sgs[Len(sgs)].sg.polygon_geog),
     subgrids |-> sgs]

\* TiledProjectionSystem.locate_geometry_in_subgrids: the ids found, and the
\* geometry object and the registry as the call leaves them
locate_geometry_in_subgrids(sgs, geom) ==
    [out |-> SelectSeq(SubgridKeys(sgs),
                       LAMBDA x : Intersects(geom, GetSubgrid(sgs, x).polygon_geog)),
     geom |-> geom,
     subgrids |-> sgs]

\* the inverse of ReprojectPoint: from the projected plane to lon-lat
GeogPoint(p) == <<p[1] + 3, p[2] + 3>>

\* geometry.transform_geometry into the lon-lat reference: a reprojected clone
transform_geometry_to_geog(g) ==
    IF g.kind = "points"
    THEN [kind |-> "points", pts |-> { GeogPoint(p) : p \in g.pts }, sr |-> "geo"]
    ELSE [kind |-> "box",
          box |-> << GeogPoint(<<g.box[1], g.box[2]>>)[1],
                     GeogPoint(<<g.box[1], g.box[2]>>)[2],
                     GeogPoint(<<g.box[3], g.box[4]>>)[1],
                     GeogPoint(<<g.box[3], g.box[4]>>)[2] >>,
          sr |-> "geo"]

\* the arguments None of search_tiles_in_roi
NoIds == [kind |-> "none"]
NoExtent == <<>>

\* subgrid_ids of search_tiles_in_roi after the first two checks, as a list
RequestedIds(sgs, subgrid_ids) ==
    IF subgrid_ids.kind = "none" THEN SubgridKeys(sgs)
    ELSE IF subgrid_ids.kind = "str" THEN <<subgrid_ids.id>>
    ELSE subgrid_ids.ids

\* a check that looks at the first requested id only
SubgridIdsError_firstOnly(sgs, subgrid_ids) ==
    IF \/ Len(RequestedIds(sgs, subgrid_ids)) = 0
       \/ RequestedIds(sgs, subgrid_ids)[1] \in SeqToSet(SubgridKeys(sgs))
    THEN "none"
    ELSE "ValueError"

\* the check of the subgrid ids of search_tiles_in_roi
SubgridIdsError(sgs, subgrid_ids) ==
    IF SeqToSet(RequestedIds(sgs, subgrid_ids)) \subseteq SeqToSet(SubgridKeys(sgs))
    THEN "none"
    ELSE "ValueError"

\* the geometry of the ROI that search_tiles_in_roi searches with
RoiGeometry(geom_arg, extent) ==
    LET given == IF geom_arg = NoGeom
                 THEN WithSr(extent2polygon(extent), "geo")
                 ELSE geom_arg
    IN  IF given.sr = "none" THEN WithSr(given, "geo")
        ELSE IF given.sr # "geo" THEN transform_geometry_to_geog(given)
        ELSE given

\* the caller's geometry object after search_tiles_in_roi: a geometry without a
\* spatial reference has the lon-lat reference assigned in place
RoiGeometryAfter(geom_arg) ==
    IF geom_arg # NoGeom /\ geom_arg.sr = "none" THEN WithSr(geom_arg, "geo")
    ELSE geom_arg

\* the orders in which a set of ids may be iterated
Orderings(S) == { q \in [1..Cardinality(S) -> S] : SeqToSet(q) = S }

\* overlapped_tiles after extend() for the subgrids ids[1..n]
RECURSIVE ExtendTiles(_, _, _, _, _)
ExtendTiles(sgs, ids, n, geom, coverland) ==
    IF n = 0 THEN <<>>
    ELSE ExtendTiles(sgs, ids, n - 1, geom, coverland)
         \o SubgridSearch(GetSubgrid(sgs, ids[n]), Shape(geom), coverland)

\* the subgrids search_tiles_in_roi searches in: the ids as the caller lists them
SelectedIds_asListed(sgs, subgrid_ids, geom, order) ==
    SelectSeq(RequestedIds(sgs, subgrid_ids),
              LAMBDA x : x \in SeqToSet(locate_geometry_in_subgrids(sgs, Shape(geom)).out))

\* the subgrids search_tiles_in_roi searches in:
\* list(set(subgrid_ids) & set(overlapped_grids)), iterated in the given order
SelectedIds(sgs, subgrid_ids, geom, order) ==
    SelectSeq(order,
              LAMBDA x : /\ x \in SeqToSet(RequestedIds(sgs, subgrid_ids))
                         /\ x \in SeqToSet(locate_geometry_in_subgrids(sgs, Shape(geom)).out))

\* TiledProjectionSystem.search_tiles_in_roi: the error raised, the list
\* returned, the subgrids searched and the caller's geometry object afterwards
search_tiles_in_roi(sgs, geom_arg, extent, subgrid_ids, coverland, order) ==
    IF SubgridIdsError(sgs, subgrid_ids) # "none"
    THEN [err |-> "ValueError", out |-> <<>>, searched |-> <<>>, geom |-> geom_arg]
    ELSE IF geom_arg = NoGeom /\ extent = NoExtent
    THEN [err |-> "none", out |-> <<>>, searched |-> <<>>, geom |-> geom_arg]
    ELSE LET geom == RoiGeometry(geom_arg, extent)
             ids == SelectedIds(sgs, subgrid_ids, geom, order)
         IN  [err |-> "none",
              out |-> ExtendTiles(sgs, ids, Len(ids), geom, coverland),
              searched |-> ids,
              geom |-> RoiGeometryAfter(geom_arg)]

\* the ids of the subgrids a grid definition may register, and an id none registers
SubgridNames == <<"Z1", "Z2", "Z3">>
UnknownId == "ZZ"

\* polygon_geog of the subgrids: Z1 and Z2 share a strip, Z3 lies over both
SubgridFootprint(id) ==
    [kind |-> "box",
     box |-> IF id = "Z1" THEN <<1, 1, 6, MaxGeo - 1>>
             ELSE IF id = "Z2" THEN <<5, 1, MaxGeo - 1, MaxGeo - 3>>
             ELSE <<3, MaxGeo - 4, 8, MaxGeo - 1>>]

\* define_subgrids of the grid definition: n subgrids, each with its own core
\* (tag = id) and its TilingSystem
define_subgrids(c, n) ==
    [k \in 1..n |->
        LET sgcore == TPSCoreProperty(SubgridNames[k], "proj", c.sampling, c.tiletype,
                                      c.tile_xsize_m, c.tile_ysize_m)
        IN  [id |-> SubgridNames[k],
             sg |-> TiledProjectionInit(sgcore, SubgridFootprint(SubgridNames[k]),
                                        TilingSystemInit(sgcore, 0, 0))]]

\* the cores of the grid systems of the model
SystemCores ==
    { TPSCoreProperty("TPS", "none", t[1], "T1", t[2], t[3]) : t \in {<<1, 2, 2>>} }

InitSystem ==
    /\ core \in SystemCores
    /\ tilesys = TilingSystemInit(core, 0, 0)
    /\ tile = TileInit(core, "tile", 0, 0)
    /\ res = NoRes
    /\ \E n \in 2..3 : subgrids = define_subgrids(core, n)
    /\ geom_area = NoGeom

\* the vertices of the geometry objects: every third point of the plane
SystemPoints == { p \in GeoPoints : (p[1] + 2 * p[2]) % 3 = 0 }

\* the geometry objects a caller may build: a point or a box, in lon-lat with
\* or without the reference assigned, or in projected coordinates
SystemGeometries ==
    { [kind |-> "points", pts |-> {p}, sr |-> sr] :
        p \in SystemPoints, sr \in {"none", "geo"} }
    \cup { [kind |-> "box", box |-> <<p[1], p[2], p[1] + d[1], p[2] + d[2]>>, sr |-> sr] :
             p \in SystemPoints, d \in {<<4, 3>>}, sr \in {"none", "geo"} }
    \cup { [kind |-> "box", box |-> <<p[1] - 3, p[2] - 3, p[1] + 1, p[2]>>, sr |-> "grid"] :
             p \in SystemPoints }

\* the caller builds a geometry object
NewGeometry ==
    \E g \in SystemGeometries :
        /\ res = NoRes
        /\ geom_area = NoGeom
        /\ geom_area' = g
        /\ res' = [op |-> "geometry"]
        /\ UNCHANGED <<core, tilesys, tile, subgrids>>

\* system.locate_geometry_in_subgrids(geom_area)
LocateGeometryInSubgrids ==
    /\ res = NoRes
    /\ geom_area # NoGeom
    /\ res' = [op |-> "locate_geometry_in_subgrids", geom |-> geom_area,
               out |-> locate_geometry_in_subgrids(subgrids, geom_area).out]
    /\ geom_area' = locate_geometry_in_subgrids(subgrids, geom_area).geom
    /\ subgrids' = locate_geometry_in_subgrids(subgrids, geom_area).subgrids
    /\ UNCHANGED <<core, tilesys, tile>>

\* the values a caller may pass as subgrid_ids
SubgridIdArgs ==
    { NoIds }
    \cup { [kind |-> "str", id |-> x] : x \in {"Z1", "Z3", UnknownId} }
    \cup { [kind |-> "list", ids |-> q] :
             q \in { <<>>, <<"Z2">>, <<"Z2", "Z1">>, <<"Z1", "Z2", "Z1">>,
                     <<"Z2", "Z2">>, <<"Z1", UnknownId>> } }

\* the extents [xmin, ymin, xmax, ymax] a caller may pass, in lon-lat
Extents == { NoExtent, <<1, 1, 3, 2>>, <<2, 3, 4, 5>>, <<0, 0, 0, 0>> }

\* system.search_tiles_in_roi(geom_area, extent, subgrid_ids=..., coverland=...):
\* the caller passes the geometry object it holds, or an extent, or neither
SearchTilesInRoi ==
    \E extent \in Extents, subgrid_ids \in SubgridIdArgs, coverland \in BOOLEAN,
       order \in Orderings(SeqToSet(SubgridKeys(subgrids))) :
        /\ res = NoRes
        /\ geom_area # NoGeom => extent \in {NoExtent, <<1, 1, 3, 2>>}
        /\ LET r == search_tiles_in_roi(subgrids, geom_area, extent, subgrid_ids,
                                        coverland, order)
           IN  /\ res' = [op |-> "search_tiles_in_roi", geom |-> geom_area,
                          extent |-> extent, subgrid_ids |-> subgrid_ids,
                          coverland |-> coverland, err |-> r.err,
                          searched |-> r.searched, out |-> r.out]
               /\ geom_area' = r.geom
        /\ UNCHANGED <<core, tilesys, tile, subgrids>>

\* the caller drops its geometry object
DropGeometry ==
    /\ res = NoRes
    /\ geom_area # NoGeom
    /\ geom_area' = NoGeom
    /\ res' = [op |-> "drop"]
    /\ UNCHANGED <<core, tilesys, tile, subgrids>>

NextSystem ==
    NewGeometry \/ LocateGeometryInSubgrids \/ SearchTilesInRoi \/ DropGeometry \/ Return

SpecSystem == InitSystem /\ [][NextSystem]_vars

(***************************************************************************)
(* TiledProjectionSystem.lonlat2xy                                         *)
(* A coordinate argument is a numpy array, a Python list or a Python       *)
(* number: [kind, v] with the values v in half units.                      *)
(***************************************************************************)
\* (a <= b).any() of lonlat2xy: the exception raised for the type of a, "none"
\* when the comparison gives an array
CompareError(a) ==
    IF a.kind = "list" THEN "TypeError"
    ELSE IF a.kind = "number" THEN "AttributeError"
    ELSE "none"

\* the check of _lonlat2xy_subgrid, operand by operand of the `or` chain
OutsideError(lon, lat, bb) ==
    IF CompareError(lon) # "none" THEN CompareError(lon)
    ELSE IF \E k \in 1..Len(lon.v) : lon.v[k] <= bb[1] THEN "ValueError"
    ELSE IF \E k \in 1..Len(lon.v) : lon.v[k] >= bb[2] THEN "ValueError"
    ELSE IF CompareError(lat) # "none" THEN CompareError(lat)
    ELSE IF \E k \in 1..Len(lat.v) : lat.v[k] <= bb[3] THEN "ValueError"
    ELSE IF \E k \in 1..Len(lat.v) : lat.v[k] >= bb[4] THEN "ValueError"
    ELSE "none"

\* pyproj.transform(p_geo, p_grid, lon, lat)
ProjTransform(lon, lat) ==
    << [k \in 1..Len(lon.v) |-> ReprojectPoint(<<lon.v[k], lat.v[k]>>)[1]],
       [k \in 1..Len(lon.v) |-> ReprojectPoint(<<lon.v[k], lat.v[k]>>)[2]] >>

\* TiledProjectionSystem._lonlat2xy_subgrid
lonlat2xy_subgrid(sgs, lon, lat, subgrid) ==
    IF subgrid \notin SeqToSet(SubgridKeys(sgs))
    THEN [err |-> "KeyError", out |-> <<>>]
    ELSE LET bb == GetEnvelope(GetSubgrid(sgs, subgrid).polygon_geog)
         IN  IF OutsideError(lon, lat, bb) # "none"
             THEN [err |-> OutsideError(lon, lat, bb), out |-> <<>>]
             ELSE [err |-> "none",
                   out |-> <<subgrid, ProjTransform(lon, lat)[1], ProjTransform(lon, lat)[2]>>]

\* the point geometry of (lon, lat)[k]
PointGeom(lon, lat, k) == [kind |-> "points", pts |-> {<<lon.v[k], lat.v[k]>>}]

\* np.vectorize(self._lonlat2xy)(lon, lat): the first located subgrid of each point
lonlat2xy_located(sgs, lon, lat) ==
    IF \E k \in 1..Len(lon.v) :
           Len(locate_geometry_in_subgrids(sgs, PointGeom(lon, lat, k)).out) = 0
    THEN [err |-> "IndexError", out |-> <<>>]
    ELSE [err |-> "none",
          out |-> << [k \in 1..Len(lon.v) |->
                        locate_geometry_in_subgrids(sgs, PointGeom(lon, lat, k)).out[1]],
                     ProjTransform(lon, lat)[1], ProjTransform(lon, lat)[2] >>]

\* the argument subgrid=None of lonlat2xy
NoSubgrid == "None"

\* TiledProjectionSystem.lonlat2xy
lonlat2xy(sgs, lon, lat, subgrid) ==
    IF subgrid = NoSubgrid THEN lonlat2xy_located(sgs, lon, lat)
    ELSE lonlat2xy_subgrid(sgs, lon, lat, subgrid)

\* the coordinate arguments of a call: one point as arrays, lists or numbers,
\* or two points as arrays
LonLatArgs ==
    { << [kind |-> kd, v |-> <<p[1]>>], [kind |-> kd, v |-> <<p[2]>>] >> :
        p \in GeoPoints, kd \in {"ndarray", "list", "number"} }
    \cup { << [kind |-> "ndarray", v |-> <<p[1], p[1] + d[1]>>],
              [kind |-> "ndarray", v |-> <<p[2], p[2] + d[2]>>] >> :
             p \in GeoPoints, d \in {<<1, 0>>, <<2, 3>>} }

\* system.lonlat2xy(lon, lat, subgrid)
Lonlat2xy ==
    \E a \in LonLatArgs, subgrid \in {NoSubgrid, "Z1", "Z2", UnknownId} :
        /\ res = NoRes
        /\ res' = [op |-> "lonlat2xy", lon |-> a[1], lat |-> a[2], subgrid |-> subgrid,
                   err |-> lonlat2xy(subgrids, a[1], a[2], subgrid).err,
                   out |-> lonlat2xy(subgrids, a[1], a[2], subgrid).out]
        /\ UNCHANGED <<core, tilesys, tile, subgrids, geom_area>>

NextLonLat == Lonlat2xy \/ Return

SpecLonLat == InitSystem /\ [][NextLonLat]_vars

(***************************************************************************)
(* TPSProjection                                                           *)
(* An argument is None or a value; a value is written as a string, an      *)
(* EPSG code with the prefix "int:" since an int never equals a str.       *)
(***************************************************************************)
None == "None"

\* checker = {epsg, proj4, wkt}; checker.discard(None)
Checker(epsg, proj4, wkt) == {epsg, proj4, wkt} \ {None}

\* the two checks of TPSProjection.__init__
ProjectionError(epsg, proj4, wkt) ==
    IF Cardinality(Checker(epsg, proj4, wkt)) = 0 THEN "Projection is not defined!"
    ELSE IF Cardinality(Checker(epsg, proj4, wkt)) # 1 THEN "Projection is defined ambiguously!"
    ELSE "none"

\* the attributes after the branch `if epsg is not None`
FromEpsg(self, epsg) ==
    IF epsg = None THEN self
    ELSE [osr_spref |-> <<"ImportFromEPSG", epsg>>,
          proj4 |-> <<"ExportToProj4", <<"ImportFromEPSG", epsg>>>>,
          wkt |-> <<"ExportToWkt", <<"ImportFromEPSG", epsg>>>>,
          epsg |-> <<epsg>>]

\* the attributes after the branch `if proj4 is not None`
FromProj4(self, proj4) ==
    IF proj4 = None THEN self
    ELSE [osr_spref |-> <<"ImportFromProj4", proj4>>,
          proj4 |-> <<proj4>>,
          wkt |-> <<"ExportToWkt", <<"ImportFromProj4", proj4>>>>,
          epsg |-> <<"extract_epsg", <<"ExportToWkt", <<"ImportFromProj4", proj4>>>>>>]

\* the attributes after the branch `if wkt is not None`
FromWkt(self, wkt) ==
    IF wkt = None THEN self
    ELSE [osr_spref |-> <<"ImportFromWkt", wkt>>,
          proj4 |-> <<"ExportToProj4", <<"ImportFromWkt", wkt>>>>,
          wkt |-> <<wkt>>,
          epsg |-> <<"extract_epsg", <<wkt>>>>]

\* TPSProjection.__init__: the error raised and the attributes of the object
TPSProjectionInit(epsg, proj4, wkt) ==
    IF ProjectionError(epsg, proj4, wkt) # "none"
    THEN [err |-> ProjectionError(epsg, proj4, wkt), self |-> <<>>]
    ELSE [err |-> "none",
          self |-> FromWkt(FromProj4(FromEpsg(<<>>, epsg), proj4), wkt)]

\* the values a caller may give for epsg, for proj4 and for wkt
EpsgArgs == {None, "int:4326", "int:32633", "int:3857", "int:27700"}
Proj4Args == {None, "+proj=longlat", "+proj=utm +zone=33", "EPSG:4326", "EPSG:32633"}
WktArgs == {None, "GEOGCS[WGS 84]", "PROJCS[UTM 33N]", "EPSG:4326", "EPSG:32633"}

InitProjection ==
    /\ core \in Cores
    /\ tilesys = TilingSystemInit(core, 0, 0)
    /\ tile = TileInit(core, "tile", 0, 0)
    /\ res = NoRes
    /\ subgrids = NoSubgrids
    /\ geom_area = NoGeom

\* TPSProjection(epsg, proj4, wkt)
NewProjection ==
    \E epsg \in EpsgArgs, proj4 \in Proj4Args, wkt \in WktArgs :
        /\ res = NoRes
        /\ res' = [op |-> "TPSProjection", epsg |-> epsg, proj4 |-> proj4, wkt |-> wkt,
                   err |-> TPSProjectionInit(epsg, proj4, wkt).err,
                   self |-> TPSProjectionInit(epsg, proj4, wkt).self]
        /\ UNCHANGED <<core, tilesys, tile, subgrids, geom_area>>

NextProjection == NewProjection \/ Return

SpecProjection == InitProjection /\ [][NextProjection]_vars

(***************************************************************************)
(* Tile names as strings                                                   *)
(* A name string is a sequence of tokens: the subgrid tag, three digits of *)
(* the sampling, "M", "_", "E", three digits, "N", three digits and the    *)
(* tile type, e.g. Z24N 5 0 0 M _ E 0 0 0 N 0 0 6 T6.                      *)
(***************************************************************************)
DigitChars == <<"0", "1", "2", "3", "4", "5", "6", "7", "8", "9">>

\* a field that keeps the last two digits of n only
Digits3_lastTwo(n) ==
    << "0", DigitChars[((n \div 10) % 10) + 1], DigitChars[(n % 10) + 1] >>

\* '%03d' % n for 0 <= n < 1000
Digits3(n) ==
    << DigitChars[((n \div 100) % 10) + 1], DigitChars[((n \div 10) % 10) + 1],
       DigitChars[(n % 10) + 1] >>

\* int(c) of one digit character
DigitValue(ch) == (CHOOSE k \in 1..10 : DigitChars[k] = ch) - 1

\* int(s) of three digit characters
Int3(s) == 100 * DigitValue(s[1]) + 10 * DigitValue(s[2]) + DigitValue(s[3])

\* the string of a name with the fields <<tag, sampling, E, N, tiletype>>
FormatTilename(name) ==
    <<name[1]>> \o Digits3(name[2]) \o <<"M", "_", "E">> \o Digits3(name[3])
    \o <<"N">> \o Digits3(name[4]) \o <<name[5]>>

\* _encode_tilename of the grid definition, as a string
encode_tilename(c, llx, lly) == FormatTilename(EncodeTilename(c, llx, lly))

\* the structure check of decode_tilename that leaves out the literal fields
TilenameError_lengthAndDigitsOnly(s) ==
    IF /\ Len(s) = 15
       /\ \A k \in {2, 3, 4, 8, 9, 10, 12, 13, 14} : s[k] \in SeqToSet(DigitChars)
    THEN "none"
    ELSE "\"tilename\" is not properly defined!"

\* the structure check of decode_tilename: length, literal fields, numeric fields
TilenameError(s) ==
    IF /\ Len(s) = 15
       /\ s[5] = "M" /\ s[6] = "_" /\ s[7] = "E" /\ s[11] = "N"
       /\ \A k \in {2, 3, 4, 8, 9, 10, 12, 13, 14} : s[k] \in SeqToSet(DigitChars)
    THEN "none"
    ELSE "\"tilename\" is not properly defined!"

\* the fields <<tag, sampling, E, N, tiletype>> of a well-formed name string
ParseTilename(s) ==
    <<s[1], Int3(SubSeq(s, 2, 4)), Int3(SubSeq(s, 8, 10)), Int3(SubSeq(s, 12, 14)), s[15]>>

\* decode_tilename of the grid definition: ValueError, or
\* (tag, sampling, tile size, llx, lly, tile type)
decode_tilename(c, s) ==
    IF TilenameError(s) # "none"
    THEN [err |-> TilenameError(s), out |-> <<>>]
    ELSE [err |-> "none",
          out |-> << ParseTilename(s)[1], ParseTilename(s)[2], c.tile_xsize_m,
                     DecodeLowerLeft(ParseTilename(s))[1],
                     DecodeLowerLeft(ParseTilename(s))[2], ParseTilename(s)[5] >>]

\* the column and row numbers of the tiles that are named in the model
TileIndices == {0, 1, 7, 60}

\* the lower-left corners of those tiles
NamedCorners(c) ==
    { <<i * c.tile_xsize_m, j * c.tile_ysize_m>> : i \in TileIndices, j \in TileIndices }

\* strings that are not tile names, made from the name string s: the short
\* form without tag and sampling, a token dropped, a token added, a literal
\* field or a digit replaced, the empty string
Malformed(s) ==
    { SubSeq(s, 7, 15), SubSeq(s, 1, 5) \o SubSeq(s, 7, 15), s \o <<"0">>,
      [s EXCEPT ![5] = "K"], [s EXCEPT ![6] = "-"], [s EXCEPT ![7] = "N"],
      [s EXCEPT ![11] = "E"], [s EXCEPT ![3] = "x"], [s EXCEPT ![9] = "E"],
      [s EXCEPT ![14] = "_"], <<>> }

InitNames ==
    /\ core \in TilingCores
    /\ tilesys = TilingSystemInit(core, 0, 0)
    /\ tile = TileInit(core, "tile", 0, 0)
    /\ res = NoRes
    /\ subgrids = NoSubgrids
    /\ geom_area = NoGeom

\* tilesys.decode_tilename(tilesys._encode_tilename(llx, lly))
EncodeDecode ==
    \E ll \in NamedCorners(core) :
        /\ res = NoRes
        /\ res' = [op |-> "encode_decode", ll |-> ll,
                   name |-> encode_tilename(core, ll[1], ll[2]),
                   err |-> decode_tilename(core, encode_tilename(core, ll[1], ll[2])).err,
                   out |-> decode_tilename(core, encode_tilename(core, ll[1], ll[2])).out]
        /\ UNCHANGED <<core, tilesys, tile, subgrids, geom_area>>

\* tilesys.decode_tilename(s), and the name encoded again from the decoded
\* lower-left corner when s decodes
DecodeEncode ==
    \E ll \in NamedCorners(core) :
        \E s \in {encode_tilename(core, ll[1], ll[2])}
                 \cup Malformed(encode_tilename(core, ll[1], ll[2])) :
            /\ res = NoRes
            /\ res' = [op |-> "decode_encode", name |-> s,
                       err |-> decode_tilename(core, s).err,
                       out |-> decode_tilename(core, s).out,
                       again |-> IF decode_tilename(core, s).err = "none"
                                 THEN encode_tilename(core, decode_tilename(core, s).out[4],
                                                      decode_tilename(core, s).out[5])
                                 ELSE <<>>]
            /\ UNCHANGED <<core, tilesys, tile, subgrids, geom_area>>

\* find_overlapping_tilenames of the grid definition: the source name is
\* decoded, its extent is the box from its lower-left corner over one tile of
\* the source scheme c, and the result is the tiles of the destination scheme
\* dst overlapping that box by identify_tiles_overlapping_xybbox
find_overlapping_tilenames(c, dst, s) ==
    IF decode_tilename(c, s).err # "none"
    THEN [err |-> decode_tilename(c, s).err, out |-> <<>>]
    ELSE LET src_llx == decode_tilename(c, s).out[4]
             src_lly == decode_tilename(c, s).out[5]
             bbox == <<src_llx, src_lly, src_llx + c.tile_xsize_m, src_lly + c.tile_ysize_m>>
         IN  [err |-> "none", out |-> identify_tiles_overlapping_xybbox(dst, bbox)]

\* tilesys.find_overlapping_tilenames(name, target) for the name of a tile
\* and the scheme of the target sampling or tile type
FindOverlappingTilenames ==
    \E ll \in NamedCorners(core), dst \in TilingCores :
        /\ res = NoRes
        /\ res' = [op |-> "find_overlapping_tilenames", ll |-> ll, dst |-> dst,
                   name |-> encode_tilename(core, ll[1], ll[2]),
                   err |-> find_overlapping_tilenames(
                               core, dst, encode_tilename(core, ll[1], ll[2])).err,
                   out |-> find_overlapping_tilenames(
                               core, dst, encode_tilename(core, ll[1], ll[2])).out]
        /\ UNCHANGED <<core, tilesys, tile, subgrids, geom_area>>

NextNames == EncodeDecode \/ DecodeEncode \/ FindOverlappingTilenames \/ Return

SpecNames == InitNames /\ [][NextNames]_vars

(***************************************************************************)
(* EPSG code of a WKT                                                      *)
(* A WKT is a sequence of characters.  The texts drawn here hold no blank, *)
(* sign or underscore, so int() accepts exactly the non-empty digit texts. *)
(***************************************************************************)
\* s.rfind(sub): the highest 0-based index where sub starts in s, -1 if none
RFind(s, sub) ==
    LET starts == { i \in 0..(Len(s) - Len(sub)) : SubSeq(s, i + 1, i + Len(sub)) = sub }
    IN  IF starts = {} THEN -1 ELSE CHOOSE i \in starts : \A k \in starts : k <= i

\* s[a:b] for 0 <= a <= b
PySlice(s, a, b) == SubSeq(s, a + 1, IF b < Len(s) THEN b ELSE Len(s))

\* the characters int() reads as decimal digits, in the order of their values
PyDigits == <<"0", "1", "2", "3", "4", "5", "6", "7", "8", "9">>

\* the number written by a text of digits
RECURSIVE DigitsValue(_)
DigitsValue(s) ==
    IF s = <<>> THEN 0
    ELSE 10 * DigitsValue(SubSeq(s, 1, Len(s) - 1))
         + (CHOOSE k \in 1..10 : PyDigits[k] = s[Len(s)]) - 1

\* int(s): the value, or ValueError for an empty text or one with a non-digit
PyInt(s) ==
    IF s # <<>> /\ \A k \in 1..Len(s) : s[k] \in SeqToSet(PyDigits)
    THEN [err |-> "none", epsg |-> [kind |-> "int", val |-> DigitsValue(s)]]
    ELSE [err |-> "ValueError"]

\* TPSProjection.extract_epsg(wkt)
extract_epsg(wkt) ==
    LET pos_last_code == RFind(wkt, <<"E", "P", "S", "G">>)
        pos_end == Len(wkt)
    IN  IF pos_end - pos_last_code < 16
        THEN PyInt(PySlice(wkt, pos_last_code + 7, pos_last_code + 11))
        ELSE [err |-> "none", epsg |-> [kind |-> "None"]]

\* the clause AUTHORITY["EPSG","n"]] that closes a WKT, n given by its digits
AuthorityClause(digits) ==
    <<"A", "U", "T", "H", "O", "R", "I", "T", "Y", "[", "\"">>
    \o <<"E", "P", "S", "G", "\"", ",", "\"">> \o digits \o <<"\"", "]", "]">>

\* digits that EPSG codes are written with here, and the codes of 4 or 5 digits
CodeDigits == {"0", "2", "3"}
CodeLengths == {4, 5}
EpsgCodes ==
    { s \in UNION { [1..n -> CodeDigits] : n \in CodeLengths } : s[1] # "0" }

\* WKT texts before the closing clause: none, a short and a long definition
WktBodies == { <<>>, <<"L", "O", "C", "A", "L", "C", "S", "[", "\"", "a", "\"", "]">>,
      <<"P", "R", "O", "J", "C", "S", "[", "\"", "U", "T", "M", "3", "3", "N", "\"", ",", "U", "N", "I", "T", "[", "\"", "m", "\"", ",", "1", "]", ",">> }

\* a clause that follows the authority clause, longer than 16 characters
AxisClause ==
    <<",", "A", "X", "I", "S", "[", "\"", "E", "a", "s", "t", "i", "n", "g", "\"", ",", "E", "A", "S", "T", "]", "]">>

WktTexts ==
    { b \o t : b \in WktBodies,
               t \in {<<>>} \cup { AuthorityClause(n) : n \in EpsgCodes }
                            \cup { AuthorityClause(n) \o AxisClause : n \in EpsgCodes } }

InitEpsg ==
    /\ core \in Cores
    /\ tilesys = TilingSystemInit(core, 0, 0)
    /\ tile = TileInit(core, "tile", 0, 0)
    /\ res = NoRes
    /\ subgrids = NoSubgrids
    /\ geom_area = NoGeom

\* projection.extract_epsg(wkt)
ExtractEpsg ==
    \E wkt \in WktTexts :
        /\ res = NoRes
        /\ res' = [op |-> "extract_epsg", wkt |-> wkt, out |-> extract_epsg(wkt)]
        /\ UNCHANGED <<core, tilesys, tile, subgrids, geom_area>>

NextEpsg == ExtractEpsg \/ Return

SpecEpsg == InitEpsg /\ [][NextEpsg]_vars

(***************************************************************************)
(* Attribute lookup                                                        *)
(* An object is its class and the set of names in its __dict__.  A lookup  *)
(* of a name that is not in the __dict__ calls __getattr__; the calls in   *)
(* progress form a stack of frames, each at the attribute it reads next.   *)
(***************************************************************************)
\* the interpreter's limit on nested calls
RecursionLimit == 3

Classes == {"TiledProjectionSystem", "TiledProjection", "TilingSystem", "Tile"}

\* the attributes __init__ assigns, in the order of the assignments
InitOrder(cls) ==
    CASE cls = "TiledProjectionSystem" -> <<"core", "subgrids">>
      [] cls = "TiledProjection" ->
            <<"core", "polygon_geog", "polygon_proj", "bbox_geog", "bbox_proj", "tilesys">>
      [] cls = "TilingSystem" ->
            <<"core", "x0", "y0", "xstep", "ystep", "polygon_proj", "bbox_proj">>
      [] cls = "Tile" ->
            <<"core", "name", "typename", "llx", "lly", "x_size_px", "y_size_px",
              "_subset_px">>

\* the __dict__ after the first k assignments of __init__
Assigned(cls, k) == { InitOrder(cls)[n] : n \in 1..k }

\* the names in core.__dict__
CoreFields == {"tag", "projection", "sampling", "tiletype", "tile_xsize_m", "tile_ysize_m"}

\* the attribute a __getattr__ call reads first
FirstRead(cls) == IF cls = "TiledProjectionSystem" THEN "subgrids" ELSE "core"

\* one step of the innermost __getattr__ call: it reads self.subgrids or
\* self.core; a name missing from the __dict__ is looked up by a nested
\* __getattr__ call, which fails with RecursionError at the limit
GetattrStep(cls, dict, stack) ==
    LET top == stack[Len(stack)]
    IN  IF top.reads \notin dict
        THEN IF Len(stack) >= RecursionLimit
             THEN [stack |-> <<>>, outcome |-> "RecursionError"]
             ELSE [stack |-> stack \o <<[item |-> top.reads, reads |-> FirstRead(cls)]>>,
                   outcome |-> "running"]
        ELSE IF top.reads = "subgrids"
        THEN IF top.item \in SeqToSet(SubgridNames)
             THEN [stack |-> <<>>, outcome |-> "value"]
             ELSE [stack |-> SubSeq(stack, 1, Len(stack) - 1)
                             \o <<[item |-> top.item, reads |-> "core"]>>,
                   outcome |-> "running"]
        ELSE IF top.item \in CoreFields
             THEN [stack |-> <<>>, outcome |-> "value"]
             ELSE [stack |-> <<>>, outcome |-> "KeyError"]

\* names looked up: attributes of the objects, a core field, a subgrid id,
\* the hook copy and pickle probe on a new object, and an unknown name
Items == {"core", "subgrids", "sampling", "Z1", "llx", "__setstate__", "nothing"}

InitGetattr ==
    /\ core \in Cores
    /\ tilesys = TilingSystemInit(core, 0, 0)
    /\ tile = TileInit(core, "tile", 0, 0)
    /\ res = NoRes
    /\ subgrids = NoSubgrids
    /\ geom_area = NoGeom

\* obj.item on an object whose __init__ has made k assignments
GetAttr ==
    \E cls \in Classes, item \in Items :
        \E k \in 0..Len(InitOrder(cls)) :
            /\ res = NoRes
            /\ res' = [op |-> "getattr", cls |-> cls, dict |-> Assigned(cls, k),
                       item |-> item,
                       stack |-> IF item \in Assigned(cls, k) THEN <<>>
                                 ELSE <<[item |-> item, reads |-> FirstRead(cls)]>>,
                       outcome |-> IF item \in Assigned(cls, k) THEN "value"
                                   ELSE "running"]
            /\ UNCHANGED <<core, tilesys, tile, subgrids, geom_area>>

\* the innermost __getattr__ call goes on
GetAttrContinue ==
    /\ res.op = "getattr"
    /\ res.outcome = "running"
    /\ res' = [res EXCEPT !.stack = GetattrStep(res.cls, res.dict, res.stack).stack,
                          !.outcome = GetattrStep(res.cls, res.dict, res.stack).outcome]
    /\ UNCHANGED <<core, tilesys, tile, subgrids, geom_area>>

NextGetattr == GetAttr \/ GetAttrContinue \/ Return

SpecGetattr == InitGetattr /\ [][NextGetattr]_vars

(***************************************************************************)
(* Properties                                                              *)
(***************************************************************************)

\* C1: in every state of a Tile or GlobalTile the stored subset satisfies
\* 0 <= xmin < xmax <= x_size_px and 0 <= ymin < ymax <= y_size_px.
C1_SubsetWithinTile ==
    /\ 0 <= tile.subset_px[1]
    /\ tile.subset_px[1] < tile.subset_px[3]
    /\ tile.subset_px[3] <= tile.x_size_px
    /\ 0 <= tile.subset_px[2]
    /\ tile.subset_px[2] < tile.subset_px[4]
    /\ tile.subset_px[4] <= tile.y_size_px

\* C2: an assignment to active_subset_px fails with ValueError whenever the
\* limits are not 4 values, or one of them is below 0 or above the pixel size
\* of its axis, or xmin >= xmax, or ymin >= ymax; every edge on its own.
C2_SetterRejects ==
    res.op = "set_active_subset" =>
        LET l == res.limits
        IN  ( \/ Len(l) # 4
              \/ \E k \in 1..4 : l[k] < 0
              \/ l[1] > tile.x_size_px
              \/ l[2] > tile.y_size_px
              \/ l[3] > tile.x_size_px
              \/ l[4] > tile.y_size_px
              \/ l[1] >= l[3]
              \/ l[2] >= l[4] ) => res.err = "ValueError"

\* a rejected assignment whose only fault is ymax above y_size_px
C2_Witness ==
    /\ res.op = "set_active_subset"
    /\ res.err = "ValueError"
    /\ Len(res.limits) = 4
    /\ res.limits[1] = 0
    /\ res.limits[2] = 0
    /\ res.limits[3] > 0
    /\ res.limits[3] <= tile.x_size_px
    /\ res.limits[4] > tile.y_size_px
    /\ tile.subset_px # res.limits

\* C3: for integer pixel indices 0 <= i <= x_size_px, 0 <= j <= y_size_px of a
\* tile whose sampling divides its sizes, ij2xy(i, j) is
\* (llx + i*sampling, lly + tile_ysize_m - j*sampling) and xy2ij gives (i, j) back.
C3_PixelRoundTrip ==
    ( /\ res.op = "ij2xy_xy2ij"
      /\ core.tile_xsize_m % core.sampling = 0
      /\ core.tile_ysize_m % core.sampling = 0
      /\ 0 <= res.ij[1] /\ res.ij[1] <= tile.x_size_px
      /\ 0 <= res.ij[2] /\ res.ij[2] <= tile.y_size_px )
    => /\ res.xy = <<tile.llx + res.ij[1] * core.sampling,
                     tile.lly + core.tile_ysize_m - res.ij[2] * core.sampling>>
       /\ res.out = res.ij

\* a round trip of an inner pixel of a tile away from the origin, sampling > 1
C3_Witness ==
    /\ res.op = "ij2xy_xy2ij"
    /\ core.sampling > 1
    /\ tile.llx > 0
    /\ tile.y_size_px >= 2
    /\ res.ij = <<1, 2>>
    /\ res.out = <<1, 2>>

\* the lower-left corners of the tiles of the grid around the boxes of the model
TileGrid(c) ==
    { <<kx * c.tile_xsize_m, ky * c.tile_ysize_m>> :
        kx \in (0 - MinCoordAbs - 1)..(MaxCoord + 1),
        ky \in (0 - MinCoordAbs - 1)..(MaxCoord + 1) }

\* the closed extent of the tile at ll shares a point with the closed box
TouchesBox(c, ll, bbox) ==
    /\ ll[1] <= bbox[3] /\ ll[1] + c.tile_xsize_m >= bbox[1]
    /\ ll[2] <= bbox[4] /\ ll[2] + c.tile_ysize_m >= bbox[2]

\* the extent of the tile at ll and the box overlap in an area
OverlapsBox(c, ll, bbox) ==
    /\ ll[1] < bbox[3] /\ ll[1] + c.tile_xsize_m > bbox[1]
    /\ ll[2] < bbox[4] /\ ll[2] + c.tile_ysize_m > bbox[2]

ReturnedCells == { res.cells[k] : k \in 1..Len(res.cells) }

\* C4: for a box with xmin < xmax and ymin < ymax identify_tiles_overlapping_xybbox
\* returns exactly the tiles whose extent intersects the box, with one notion of
\* intersection (touching counts, or touching does not count) on all four sides.
C4_ExactlyIntersecting ==
    (res.op = "identify_tiles" /\ res.bbox[1] < res.bbox[3] /\ res.bbox[2] < res.bbox[4])
    => /\ res.err = "none"
       /\ \/ ReturnedCells = { ll \in TileGrid(core) : TouchesBox(core, ll, res.bbox) }
          \/ ReturnedCells = { ll \in TileGrid(core) : OverlapsBox(core, ll, res.bbox) }

\* C5: for a box whose four edges lie on tile edges identify_tiles_overlapping_xybbox
\* returns ((xmax-xmin)/tile_xsize_m) * ((ymax-ymin)/tile_ysize_m) tiles, the ones
\* that cover the box, and no neighbouring tile.
C5_AlignedBoxNoNeighbour ==
    ( /\ res.op = "identify_tiles"
      /\ res.bbox[1] < res.bbox[3] /\ res.bbox[2] < res.bbox[4]
      /\ res.bbox[1] % core.tile_xsize_m = 0 /\ res.bbox[3] % core.tile_xsize_m = 0
      /\ res.bbox[2] % core.tile_ysize_m = 0 /\ res.bbox[4] % core.tile_ysize_m = 0 )
    => /\ Len(res.out) = ((res.bbox[3] - res.bbox[1]) \div core.tile_xsize_m)
                         * ((res.bbox[4] - res.bbox[2]) \div core.tile_ysize_m)
       /\ ReturnedCells = { ll \in TileGrid(core) : OverlapsBox(core, ll, res.bbox) }

\* C6: identify_tiles_overlapping_xybbox and create_tiles_overlapping_xybbox fail
\* with ValueError and return nothing whenever xmin >= xmax or ymin >= ymax.
C6_InvalidBoxRejected ==
    ( /\ res.op \in {"identify_tiles", "create_tiles"}
      /\ (res.bbox[1] >= res.bbox[3] \/ res.bbox[2] >= res.bbox[4]) )
    => res.err = "ValueError" /\ res.out = <<>>

\* create_tiles_overlapping_xybbox refused a box with xmin = xmax, ymin < ymax
C6_Witness ==
    /\ res.op = "create_tiles"
    /\ res.bbox[1] = res.bbox[3]
    /\ res.bbox[2] < res.bbox[4]
    /\ res.err = "ValueError"

\* C7: for every box with xmin < xmax and ymin < ymax create_tiles_overlapping_xybbox
\* completes without error and returns one Tile per name of
\* identify_tiles_overlapping_xybbox, in the same order, each with an accepted subset.
C7_CreateCompletes ==
    (res.op = "create_tiles" /\ res.bbox[1] < res.bbox[3] /\ res.bbox[2] < res.bbox[4])
    => /\ res.err = "none"
       /\ Len(res.out) = Len(identify_tiles_overlapping_xybbox(core, res.bbox))
       /\ \A k \in 1..Len(res.out) :
            /\ res.out[k].name = identify_tiles_overlapping_xybbox(core, res.bbox)[k]
            /\ SubsetError(res.out[k], res.out[k].subset_px) = "none"

\* C8: the limits create_tiles_overlapping_xybbox assigns keep the default on
\* every side where the tile does not extend beyond the box: left 0 if
\* llx > xmin, second 0 if lly > ymin, third x_size_px if the right limit <= xmax,
\* fourth y_size_px if the upper limit <= ymax; a returned tile stores these limits.
C8_InteriorEdgesKeepDefault ==
    res.op = "create_tiles" =>
        /\ \A k \in 1..Len(res.assigned) :
            LET ll == OverlappingCells(core, res.bbox)[k]
                a == res.assigned[k]
            IN  /\ (ll[1] > res.bbox[1] => a[1] = 0)
                /\ (ll[2] > res.bbox[2] => a[2] = 0)
                /\ (ll[1] + core.tile_xsize_m <= res.bbox[3]
                        => a[3] = core.tile_xsize_m \div core.sampling)
                /\ (ll[2] + core.tile_ysize_m <= res.bbox[4]
                        => a[4] = core.tile_ysize_m \div core.sampling)
        /\ \A k \in 1..Len(res.out) : res.out[k].subset_px = res.assigned[k]

\* two tiles in a row were returned: the left one clipped on its left side only,
\* the right one on its right side only
C8_Witness ==
    /\ res.op = "create_tiles"
    /\ res.err = "none"
    /\ Len(res.out) = 2
    /\ res.out[1].llx < res.bbox[1]
    /\ res.out[2].llx > res.bbox[1]
    /\ res.out[1].subset_px[1] > 0
    /\ res.out[1].subset_px[3] = res.out[1].x_size_px
    /\ res.out[2].subset_px[1] = 0
    /\ res.out[2].subset_px[3] < res.out[2].x_size_px

\* C9: round_xy2lowerleft returns the corner (llx, lly) of the tile covering the
\* point, floored relative to the origin: llx <= x < llx + xstep,
\* lly <= y < lly + ystep, and llx - x0, lly - y0 are multiples of the steps.
C9_FlooredRelativeToOrigin ==
    res.op = "round_xy2lowerleft" =>
        /\ res.out[1] <= res.xy[1] /\ res.xy[1] < res.out[1] + tilesys.xstep
        /\ res.out[2] <= res.xy[2] /\ res.xy[2] < res.out[2] + tilesys.ystep
        /\ (res.out[1] - tilesys.x0) % tilesys.xstep = 0
        /\ (res.out[2] - tilesys.y0) % tilesys.ystep = 0

\* the extent of the tile with lower-left corner (x, y), as a geometry
TileExtentGeom(c, x, y) ==
    extent2polygon(<<x, y, x + c.tile_xsize_m, y + c.tile_ysize_m>>)

\* C10: every tile search_tiles_in_geometry returns has an extent
\* [x, x + tile_xsize_m] x [y, y + tile_ysize_m] that intersects the reprojected
\* intersection of the geometry with the footprint, and the result is empty if
\* the geometry does not intersect the footprint.
C10_AcceptedTilesIntersect ==
    res.op = "search_tiles_in_geometry" =>
        /\ \A k \in 1..Len(res.cells) :
             Intersects(res.region, TileExtentGeom(core, res.cells[k][1], res.cells[k][2]))
        /\ Len(res.out) = Len(res.cells)
        /\ (~res.hit => res.out = <<>>)

\* C11: in search_tiles_in_geometry every candidate that is tested and every
\* tile that is returned has a lower-left corner with x >= 0 and y >= 0,
\* whatever the envelope of the reprojected intersection, negative or not.
C11_CandidatesNonNegative ==
    res.op = "search_tiles_in_geometry" =>
        /\ \A k \in 1..Len(res.tested) : res.tested[k][1] >= 0 /\ res.tested[k][2] >= 0
        /\ \A k \in 1..Len(res.cells) : res.cells[k][1] >= 0 /\ res.cells[k][2] >= 0
        /\ \A k \in 1..Len(res.out) :
               /\ DecodeLowerLeft(res.out[k])[1] >= 0
               /\ DecodeLowerLeft(res.out[k])[2] >= 0

\* a search whose reprojected intersection reaches below zero on both axes
\* and that returns a tile
C11_Witness ==
    /\ res.op = "search_tiles_in_geometry"
    /\ res.hit
    /\ GetEnvelope(res.region)[1] < 0 - 1
    /\ GetEnvelope(res.region)[3] < 0 - 1
    /\ Len(res.tested) > 0
    /\ Len(res.out) > 0
\* the geometry g has a point in the box f
MeetsBox(g, f) ==
    IF g.kind = "points"
    THEN \E p \in g.pts : /\ f.box[1] <= p[1] /\ p[1] <= f.box[3]
                          /\ f.box[2] <= p[2] /\ p[2] <= f.box[4]
    ELSE /\ g.box[1] <= g.box[3] /\ g.box[2] <= g.box[4]
         /\ g.box[1] <= f.box[3] /\ f.box[1] <= g.box[3]
         /\ g.box[2] <= f.box[4] /\ f.box[2] <= g.box[4]

\* the ids of the registered subgrids whose footprint the geometry g meets
OverlappingIds(g) ==
    { subgrids[k].id : k \in { n \in 1..Len(subgrids) : MeetsBox(g, subgrids[n].sg.polygon_geog) } }

\* the ids a call of search_tiles_in_roi asks for
AskedIds ==
    IF res.subgrid_ids.kind = "none" THEN { subgrids[k].id : k \in 1..Len(subgrids) }
    ELSE IF res.subgrid_ids.kind = "str" THEN { res.subgrid_ids.id }
    ELSE { res.subgrid_ids.ids[k] : k \in 1..Len(res.subgrid_ids.ids) }

\* the ROI of a call of search_tiles_in_roi, in lon-lat
AskedRoi == Shape(RoiGeometry(res.geom, res.extent))

\* C12: search_tiles_in_roi returns a list without repeated names that holds
\* exactly the tiles search_tiles_in_geometry finds in the subgrids that are
\* both requested and overlapping the ROI, also when subgrid_ids repeats an
\* id or is None.
C12_RoiTilesOfSelectedSubgrids ==
    ( /\ res.op = "search_tiles_in_roi"
      /\ res.err = "none"
      /\ (res.geom # NoGeom \/ res.extent # NoExtent) ) =>
        /\ \A i \in 1..Len(res.out), j \in 1..Len(res.out) :
               i # j => res.out[i] # res.out[j]
        /\ SeqToSet(res.out) =
               UNION { SeqToSet(SubgridSearch(GetSubgrid(subgrids, id), AskedRoi, res.coverland)) :
                         id \in AskedIds \cap OverlappingIds(AskedRoi) }
        /\ \A k \in 1..Len(res.out) :
               res.out[k][1] \in AskedIds \cap OverlappingIds(AskedRoi)

\* a call that names a subgrid twice, searches two subgrids and finds tiles in both
C12_Witness ==
    /\ res.op = "search_tiles_in_roi"
    /\ res.err = "none"
    /\ res.subgrid_ids.kind = "list"
    /\ Len(res.subgrid_ids.ids) > Cardinality(AskedIds)
    /\ Len(res.searched) = 2
    /\ \A id \in SeqToSet(res.searched) : \E k \in 1..Len(res.out) : res.out[k][1] = id

\* C13: locate_geometry_in_subgrids returns the ids of the registered
\* subgrids whose footprint meets the geometry, each once and no other id
\* (the empty list when none meets it), and leaves the geometry object and
\* the registry as they were.
C13_LocateExactAndPure ==
    res.op = "locate_geometry_in_subgrids" =>
        /\ SeqToSet(res.out) = OverlappingIds(res.geom)
        /\ Len(res.out) = Cardinality(OverlappingIds(res.geom))
        /\ geom_area = res.geom
        /\ subgrids = define_subgrids(core, Len(subgrids))

\* a geometry that lies in two of three subgrids
C13_Witness ==
    /\ res.op = "locate_geometry_in_subgrids"
    /\ Len(subgrids) = 3
    /\ Len(res.out) = 2
    /\ res.geom.kind = "box"

\* C14: search_tiles_in_roi with a subgrid id that is not registered, given as
\* a string or as an element of a list, fails with ValueError and returns no
\* tile, whatever the ROI, also when neither a geometry nor an extent is given.
C14_UnknownSubgridRejected ==
    ( /\ res.op = "search_tiles_in_roi"
      /\ ~(AskedIds \subseteq { subgrids[k].id : k \in 1..Len(subgrids) }) ) =>
        /\ res.err = "ValueError"
        /\ res.out = <<>>

\* an unregistered id as the second element of a list, without any ROI
C14_Witness ==
    /\ res.op = "search_tiles_in_roi"
    /\ res.subgrid_ids.kind = "list"
    /\ Len(res.subgrid_ids.ids) = 2
    /\ res.subgrid_ids.ids[2] = UnknownId
    /\ res.geom = NoGeom
    /\ res.extent = NoExtent
    /\ res.err = "ValueError"
\* the points of a call of lonlat2xy that are not strictly inside the
\* bounding box (lonmin, lonmax, latmin, latmax) of the given subgrid
PointsNotInside(bb) ==
    { k \in 1..Len(res.lon.v) :
        \/ res.lon.v[k] <= bb[1] \/ res.lon.v[k] >= bb[2]
        \/ res.lat.v[k] <= bb[3] \/ res.lat.v[k] >= bb[4] }

\* C15: lonlat2xy with an explicit subgrid fails with ValueError if a
\* supplied point is not strictly inside the subgrid's geographic bounding
\* box, the boundary included, and otherwise returns the subgrid id with the
\* projected coordinates.
C15_StrictlyInsideOrValueError ==
    ( /\ res.op = "lonlat2xy"
      /\ res.subgrid \in SeqToSet(SubgridKeys(subgrids)) ) =>
        LET bb == GetEnvelope(GetSubgrid(subgrids, res.subgrid).polygon_geog)
        IN  IF PointsNotInside(bb) # {}
            THEN res.err = "ValueError" /\ res.out = <<>>
            ELSE /\ res.err = "none"
                 /\ res.out = << res.subgrid,
                                 [k \in 1..Len(res.lon.v) |-> res.lon.v[k] - 3],
                                 [k \in 1..Len(res.lat.v) |-> res.lat.v[k] - 3] >>
\* the number of arguments of a TPSProjection call that are not None
GivenArgs ==
    Cardinality({ k \in 1..3 : <<res.epsg, res.proj4, res.wkt>>[k] # None })

\* C16: TPSProjection is built from exactly one of epsg, proj4, wkt: with
\* none given it fails with 'Projection is not defined!', with two or three
\* given, whatever their values and also when two of them are equal, it
\* fails with 'Projection is defined ambiguously!'.
C16_ExactlyOneDefinition ==
    res.op = "TPSProjection" =>
        /\ GivenArgs = 0 => res.err = "Projection is not defined!"
        /\ GivenArgs = 1 => res.err = "none"
        /\ GivenArgs > 1 => res.err = "Projection is defined ambiguously!"
\* C17: the TPSCoreProperty record is immutable once built: no construction
\* of a Tile or GlobalTile on it and no query changes its tag, projection,
\* sampling, tiletype, tile_xsize_m or tile_ysize_m.
C17_CoreImmutable ==
    [][ /\ core'.tag = core.tag
        /\ core'.projection = core.projection
        /\ core'.sampling = core.sampling
        /\ core'.tiletype = core.tiletype
        /\ core'.tile_xsize_m = core.tile_xsize_m
        /\ core'.tile_ysize_m = core.tile_ysize_m ]_vars

\* C18: the extent of a GlobalTile built from the projected bounding box
\* (xmin, xmax, ymin, ymax) is that box snapped to the sampling grid:
\* limits_m() = (ceil(xmin/s)*s, ceil(ymin/s)*s, floor(xmax/s)*s, floor(ymax/s)*s),
\* also for a box whose lower-left corner is not (0, 0).
C18_GlobalTileExtentIsFootprint ==
    res.op = "GlobalTile" =>
        limits_m(tile, core) =
            << NpCeil(res.bbox[1], core.sampling) * core.sampling,
               NpCeil(res.bbox[3], core.sampling) * core.sampling,
               NpFloor(res.bbox[2], core.sampling) * core.sampling,
               NpFloor(res.bbox[4], core.sampling) * core.sampling >>
HasNameStructure(s) ==
    /\ Len(s) = 15
    /\ <<s[5], s[6], s[7], s[11]>> = <<"M", "_", "E", "N">>
    /\ \A k \in (2..4) \cup (8..10) \cup (12..14) :
           \E d \in 0..9 : s[k] = Digits3(d)[3]

C26_StepsEqualCoreTileSize ==
    /\ tilesys.xstep = core.tile_xsize_m
    /\ tilesys.ystep = core.tile_ysize_m

\* C27: reading active_subset_px gives the limits of the most recent accepted
\* assignment, or the full extent if none was accepted since the tile was
\* built; a rejected assignment leaves the stored subset unchanged.
C27_SubsetIsLastAccepted ==
    [][ /\ (res'.op = "set_active_subset" /\ res'.err = "none") =>
               tile'.subset_px = res'.limits
        /\ (res'.op = "set_active_subset" /\ res'.err # "none") =>
               tile'.subset_px = tile.subset_px
        /\ res'.op \in {"Tile", "GlobalTile"} =>
               tile'.subset_px = <<0, 0, tile'.x_size_px, tile'.y_size_px>>
        /\ res'.op = "none" => tile'.subset_px = tile.subset_px ]_vars

\* a rejected assignment after an accepted one: the accepted limits are kept
C27_Witness ==
    /\ res.op = "set_active_subset"
    /\ res.err # "none"
    /\ Len(res.limits) = 4
    /\ tile.subset_px # <<0, 0, tile.x_size_px, tile.y_size_px>>
    /\ tile.subset_px # res.limits

\* C30: search_tiles_in_roi leaves the caller's geometry object as it was,
\* coordinates and spatial reference, also a geometry passed without a
\* spatial reference, and leaves the registry of subgrids unchanged.
C30_RoiGeometryUnchanged ==
    res.op = "search_tiles_in_roi" =>
        /\ geom_area = res.geom
        /\ subgrids = define_subgrids(core, Len(subgrids))
\* the lower-left corners (x, y) with x >= 0 and y >= 0 of the tiles that can
\* reach a region of the model
SearchGrid(c) ==
    { <<kx * c.tile_xsize_m, ky * c.tile_ysize_m>> : kx \in 0..MaxGeo, ky \in 0..MaxGeo }

\* C23: with the cover filter disabled search_tiles_in_geometry omits no
\* tile: every tile with x >= 0 and y >= 0 whose extent
\* [x, x + tile_xsize_m] x [y, y + tile_ysize_m] shares a point with the
\* reprojected intersection is in the result, also a tile that only touches
\* the region on its lower or left side.
C23_NoTileOmitted ==
    ( /\ res.op = "search_tiles_in_geometry"
      /\ res.hit
      /\ ~res.coverland ) =>
        \A ll \in SearchGrid(core) :
            Intersects(res.region, TileExtentGeom(core, ll[1], ll[2])) =>
                /\ ll \in SeqToSet(res.cells)
                /\ EncodeTilename(core, ll[1], ll[2]) \in SeqToSet(res.out)
\* the subgrid of the search as the only entry of a registry
OwnRegistry ==
    << [id |-> core.tag, sg |-> TiledProjectionInit(core, FootprintGeog, tilesys)] >>

\* C24: the land-cover filter is applied only if supplied:
\* search_tiles_in_geometry without a cover argument returns the tiles it
\* returns with the filter disabled, and the tiles search_tiles_in_roi
\* returns without a cover argument for the same geometry and subgrid.
C24_FilterOnlyIfSupplied ==
    ( /\ res.op = "search_tiles_in_geometry"
      /\ res.cover_arg = NoCover ) =>
        /\ res.out = search_tiles_in_geometry(tilesys, core, res.geom, FALSE)
        /\ res.out = search_tiles_in_roi(OwnRegistry, WithSr(res.geom, "geo"), NoExtent,
                                         NoIds, CoverlandInRoi(NoCover), <<core.tag>>).out
\* the smaller and the larger of two numbers
Min2(a, b) == IF a < b THEN a ELSE b
Max2(a, b) == IF a > b THEN a ELSE b

\* C22: for each tile create_tiles_overlapping_xybbox returns, the rectangle
\* spanned by ij2xy(xmin_px, ymin_px) and ij2xy(xmax_px, ymax_px) of its
\* active subset contains the part of the box inside the tile's extent, also
\* for a box whose edges are not multiples of the sampling.
C22_SubsetCoversBoxInTile ==
    (res.op = "create_tiles" /\ res.err = "none") =>
        \A k \in 1..Len(res.out) :
            LET t == res.out[k]
                p1 == ij2xy(t, core, t.subset_px[1], t.subset_px[2])
                p2 == ij2xy(t, core, t.subset_px[3], t.subset_px[4])
                ix1 == Max2(t.llx, res.bbox[1])
                iy1 == Max2(t.lly, res.bbox[2])
                ix2 == Min2(t.llx + core.tile_xsize_m, res.bbox[3])
                iy2 == Min2(t.lly + core.tile_ysize_m, res.bbox[4])
            IN  (ix1 <= ix2 /\ iy1 <= iy2) =>
                    /\ Min2(p1[1], p2[1]) <= ix1 /\ ix2 <= Max2(p1[1], p2[1])
                    /\ Min2(p1[2], p2[2]) <= iy1 /\ iy2 <= Max2(p1[2], p2[2])

\* C28: for a point inside a tile's extent (llx <= x < llx + tile_xsize_m,
\* lly < y <= lly + tile_ysize_m) xy2ij returns the index of a pixel of the
\* tile: 0 <= i < x_size_px and 0 <= j < y_size_px.
C28_PixelIndexInRange ==
    ( /\ res.op = "xy2ij"
      /\ tile.llx <= res.xy[1] /\ res.xy[1] < tile.llx + core.tile_xsize_m
      /\ tile.lly < res.xy[2] /\ res.xy[2] <= tile.lly + core.tile_ysize_m ) =>
        /\ 0 <= res.out[1] /\ res.out[1] < tile.x_size_px
        /\ 0 <= res.out[2] /\ res.out[2] < tile.y_size_px
\* a text ends with a given text
EndsWith(s, tail) ==
    Len(tail) <= Len(s) /\ SubSeq(s, Len(s) - Len(tail) + 1, Len(s)) = tail

\* the text 'EPSG' starts within the last 16 characters of a text
EpsgNearEnd(s) ==
    \E i \in 0..(Len(s) - 4) :
        SubSeq(s, i + 1, i + 4) = <<"E", "P", "S", "G">> /\ Len(s) - i <= 16

\* C25: extract_epsg returns n for a WKT that ends with AUTHORITY["EPSG","n"]]
\* for every code n of 4 or 5 digits, and returns None without raising for a
\* WKT with no EPSG clause within its last 16 characters.
C25_EpsgRecovered ==
    res.op = "extract_epsg" =>
        /\ \A n \in EpsgCodes :
               EndsWith(res.wkt, AuthorityClause(n)) =>
                   res.out = [err |-> "none", epsg |-> [kind |-> "int", val |-> DigitsValue(n)]]
        /\ ~EpsgNearEnd(res.wkt) =>
               res.out = [err |-> "none", epsg |-> [kind |-> "None"]]
\* C29: a lookup through the delegating __getattr__ ends by returning the
\* subgrid or core field of that name or by raising a lookup error, in every
\* state of the object, also before subgrids or core is assigned: no lookup
\* ends at the recursion limit of the nested calls.
C29_LookupTerminates ==
    res.op = "getattr" => res.outcome \in {"running", "value", "KeyError"}
\* the names of the destination tiles that lie inside the extent of a source
\* tile with the lower-left corner ll
TilesInside(c, dst, ll) ==
    { EncodeTilename(dst, ll[1] + kx * dst.tile_xsize_m, ll[2] + ky * dst.tile_ysize_m) :
        kx \in 0..((c.tile_xsize_m \div dst.tile_xsize_m) - 1),
        ky \in 0..((c.tile_ysize_m \div dst.tile_ysize_m) - 1) }

====
